---- MODULE Spec2Model ----
(***************************************************************************)
(* The image pipeline of download_images.py: download_image (Fetcher),    *)
(* to_webp_channel / to_webp_show (Transcoder and Budget Search),         *)
(* placeholder_webp (Placeholder Synthesizer) and the thread pool of main *)
(* running process_image (Task Runner).                                   *)
(*                                                                         *)
(* Specifications:                                                         *)
(*   Spec        the Task Runner: main's pass 2 over a deduplicated task  *)
(*               list, its workers running process_image;                 *)
(*   FairSpec    Spec with weak fairness of the program's steps;          *)
(*   TwoRunSpec  the program run twice, one run after the other, over the *)
(*               same task list and store;                                *)
(*   PoolSpec    Spec with a pool small enough to fill, and a fetch that  *)
(*               may never return;                                        *)
(*   MainSpec    Spec followed by pass 3 of main, which rewrites the      *)
(*               references of the JSON files;                            *)
(*   SearchSpec  the Transcoder applied to one downloaded body drawn from *)
(*               a bounded family of rasters and encoded sizes;           *)
(*   FetchSpec   one call of download_image over the outcomes of its     *)
(*               requests;                                                *)
(*   InitialsSpec  one call of get_initials on a label;                   *)
(*   PlanSpec    pass 1 of main over a bounded family of JSON files;      *)
(*   UrlSpec     build_new_url and build_url_from_parts applied to one    *)
(*               destination path.                                        *)
(***************************************************************************)
EXTENDS Integers, Sequences, FiniteSets, TLC

\* ------------------------------------------------------------------ bounds
\* Longest task list submitted to the pool.
MaxTasks == 2
\* Most encode attempts of one raster that come out within the byte budget.
MaxFit == 2
\* Longest label handed to get_initials, the examples apart.
MaxLabel == 3
\* Most JSON files in schedule/, and most programmes in one of them.
MaxFiles == 2
MaxProgs == 1
\* Longest channel folder name handed to the URL builders.
MaxFolder == 2

\* ------------------------------------------------------- program constants
SHOW_MAX_KB == 10
SHOW_MAX_BYTES == SHOW_MAX_KB * 1024
RETRY_ATTEMPTS == 2
\* max_dim of to_webp_show
MaxDim == 400
\* quality of the final, unconditional encode of to_webp_show
LastQuality == 5
\* quality of every encode of the scale ladder
ScaleQuality == 10
\* no scaling, in percent
FullScale == 100

\* ---------------------------------------------------------------- helpers
Abs(x) == IF x < 0 THEN 0 - x ELSE x

Max2(a, b) == IF a >= b THEN a ELSE b

\* Python's range(start, stop, -step) for step > 0, as a sequence.
RECURSIVE RangeDown(_, _, _)
RangeDown(start, stop, step) ==
    IF start <= stop THEN <<>>
    ELSE <<start>> \o RangeDown(start - step, stop, step)

\* Mutant: the range stops one level early.
QualityLadderShort == RangeDown(85, 10, 5)

\* for quality in range(85, 5, -5)
QualityLadder == RangeDown(85, 5, 5)

\* for scale in [0.75, 0.5, 0.35, 0.25], in percent
ScaleLadder == <<75, 50, 35, 25>>

\* ---------------------------------------------------------------- text
\* A Python str is a sequence of characters, each a one-character string.
LowerCase ==
    <<"a", "b", "c", "d", "e", "f", "g", "h", "i", "j", "k", "l", "m",
      "n", "o", "p", "q", "r", "s", "t", "u", "v", "w", "x", "y", "z">>

UpperCase ==
    <<"A", "B", "C", "D", "E", "F", "G", "H", "I", "J", "K", "L", "M",
      "N", "O", "P", "Q", "R", "S", "T", "U", "V", "W", "X", "Y", "Z">>

IndexIn(c, alphabet) == CHOOSE k \in 1..Len(alphabet) : alphabet[k] = c

IsLower(c) == \E k \in 1..Len(LowerCase) : LowerCase[k] = c

IsUpper(c) == \E k \in 1..Len(UpperCase) : UpperCase[k] = c

\* str.lower() of one character.
Lower(c) == IF IsUpper(c) THEN LowerCase[IndexIn(c, UpperCase)] ELSE c

\* str.upper() of one character: the uppercase of "ß" is "SS".
Upper(c) ==
    IF IsLower(c) THEN <<UpperCase[IndexIn(c, LowerCase)]>>
    ELSE IF c = "ß" THEN <<"S", "S">> ELSE <<c>>

\* Whitespace, for str.strip(), str.split() and \s.
Whitespace == {" "}

IsSpace(c) == c \in Whitespace

\* \w: letters, digits and the underscore.
IsWord(c) == IsLower(c) \/ IsUpper(c) \/ c = "ß" \/ c = "_"

RECURSIVE UpperStr(_)
UpperStr(str) ==
    IF str = <<>> THEN <<>> ELSE Upper(Head(str)) \o UpperStr(Tail(str))

LowerStr(str) == [k \in 1..Len(str) |-> Lower(str[k])]

\* str[:n]
Take(str, n) == SubSeq(str, 1, IF n < Len(str) THEN n ELSE Len(str))

\* str.split(): the maximal runs of non-whitespace characters, in order.
RECURSIVE SplitFrom(_, _, _)
SplitFrom(str, k, word) ==
    IF k > Len(str) THEN (IF word = <<>> THEN <<>> ELSE <<word>>)
    ELSE IF IsSpace(str[k])
         THEN (IF word = <<>> THEN <<>> ELSE <<word>>) \o SplitFrom(str, k + 1, <<>>)
         ELSE SplitFrom(str, k + 1, Append(word, str[k]))

Split(str) == SplitFrom(str, 1, <<>>)

\* max_chars of get_initials
MaxChars == 4

\* "".join(w[0] for w in words if w)
RECURSIVE FirstChars(_)
FirstChars(words) ==
    IF words = <<>> THEN <<>>
    ELSE (IF Head(words) = <<>> THEN <<>> ELSE <<Head(words)[1]>>)
             \o FirstChars(Tail(words))

\* name.strip().split() is name.split(): split() ignores leading and
\* trailing whitespace.
get_initials(name) ==
    LET words == Split(name)
    IN  IF Len(words) = 1 THEN UpperStr(Take(words[1], MaxChars))
        ELSE Take(UpperStr(FirstChars(words)), MaxChars)

\* str with its leading characters of the set chars removed.
RECURSIVE DropWhile(_, _)
DropWhile(str, chars) ==
    IF str = <<>> \/ Head(str) \notin chars THEN str
    ELSE DropWhile(Tail(str), chars)

Reverse(str) == [k \in 1..Len(str) |-> str[Len(str) + 1 - k]]

\* str.strip(chars)
StripChars(str, chars) ==
    Reverse(DropWhile(Reverse(DropWhile(str, chars)), chars))

\* re.sub("[chars]+", "-", str): every maximal run of characters of the set
\* becomes one hyphen.
RECURSIVE SubRuns(_, _)
SubRuns(str, chars) ==
    IF str = <<>> THEN <<>>
    ELSE IF Head(str) \in chars
         THEN <<"-">> \o SubRuns(DropWhile(Tail(str), chars), chars)
         ELSE <<Head(str)>> \o SubRuns(Tail(str), chars)

\* re.sub(r"[^\w\s-]", "", str)
RECURSIVE RemoveSpecial(_)
RemoveSpecial(str) ==
    IF str = <<>> THEN <<>>
    ELSE (IF IsWord(Head(str)) \/ IsSpace(Head(str)) \/ Head(str) = "-"
          THEN <<Head(str)>> ELSE <<>>) \o RemoveSpecial(Tail(str))

slugify(name) ==
    LET lowered == StripChars(LowerStr(name), Whitespace)
        plain == RemoveSpecial(lowered)
        hyphened == SubRuns(plain, Whitespace \cup {"_"})
        collapsed == SubRuns(hyphened, {"-"})
    IN  StripChars(collapsed, {"-"})

\* ---------------------------------------------------------------- paths
\* A pathlib.Path: its root ("" for a relative path) and its components.
PathOf(root, parts) == [root |-> root, parts |-> parts]

\* The components of a path segment: split at "/", the empty ones and "."
\* dropped.
RECURSIVE ComponentsFrom(_, _, _)
ComponentsFrom(seg, k, part) ==
    LET done == IF part = <<>> \/ part = <<".">> THEN <<>> ELSE <<part>>
    IN  IF k > Len(seg) THEN done
        ELSE IF seg[k] = "/" THEN done \o ComponentsFrom(seg, k + 1, <<>>)
             ELSE ComponentsFrom(seg, k + 1, Append(part, seg[k]))

Components(seg) == ComponentsFrom(seg, 1, <<>>)

\* The root of a segment: "/" for an absolute one, "//" for exactly two
\* leading slashes, as POSIX paths keep them.
RootOf(seg) ==
    IF seg = <<>> \/ seg[1] # "/" THEN ""
    ELSE IF Len(seg) >= 2 /\ seg[2] = "/" /\ (Len(seg) = 2 \/ seg[3] # "/")
         THEN "//" ELSE "/"

\* path / seg: an absolute segment replaces the path.
JoinPath(path, seg) ==
    IF RootOf(seg) # "" THEN PathOf(RootOf(seg), Components(seg))
    ELSE PathOf(path.root, path.parts \o Components(seg))

\* IMAGES_DIR = Path("downloaded-images")
IMAGES_DIR == PathOf("", <<<<"d", "o", "w", "n", "l", "o", "a", "d", "e", "d",
                      "-", "i", "m", "a", "g", "e", "s">>>>)

\* f"{slug}.webp"
WebpName(slug) == slug \o <<".", "w", "e", "b", "p">>

\* ----------------------------------------------------------------- URLs
BASE_URL ==
    <<"h", "t", "t", "p", "s", ":", "/", "/", "e", "x", "a", "m",
    "p", "l", "e", ".", "c", "o", "m", "/", "w", "p", "-", "c",
    "o", "n", "t", "e", "n", "t", "/", "u", "p", "l", "o", "a",
    "d", "s", "/", "d", "o", "w", "n", "l", "o", "a", "d", "e",
    "d", "-", "i", "m", "a", "g", "e", "s">>

\* The argument of lstrip in build_new_url.
StripArgument ==
    <<"d", "o", "w", "n", "l", "o", "a", "d", "e", "d", "-", "i",
    "m", "a", "g", "e", "s", "/">>

\* The characters of a string: what str.lstrip and str.rstrip take their
\* argument for.
CharsOf(str) == {str[k] : k \in 1..Len(str)}

\* str.rstrip(chars)
RStrip(str, chars) == Reverse(DropWhile(Reverse(str), chars))

\* "/".join(parts)
RECURSIVE JoinSlash(_)
JoinSlash(parts) ==
    IF parts = <<>> THEN <<>>
    ELSE IF Len(parts) = 1 THEN parts[1]
         ELSE parts[1] \o <<"/">> \o JoinSlash(Tail(parts))

\* Path.as_posix()
AsPosix(path) ==
    (IF path.root = "" THEN <<>>
     ELSE IF path.root = "/" THEN <<"/">> ELSE <<"/", "/">>)
        \o JoinSlash(path.parts)

\* f"{BASE_URL.rstrip('/')}/{rel.lstrip('downloaded-images/').lstrip('/')}"
build_new_url(dest_path) ==
    LET rel == AsPosix(dest_path)
    IN  RStrip(BASE_URL, {"/"}) \o <<"/">>
            \o DropWhile(DropWhile(rel, CharsOf(StripArgument)), {"/"})

\* f"{BASE_URL.rstrip('/')}/{channel_name}/{filename}"
build_url_from_parts(channel_name, filename) ==
    RStrip(BASE_URL, {"/"}) \o <<"/">> \o channel_name \o <<"/">> \o filename

\* ------------------------------------------------------ response bodies
\* A downloaded body: len abstracts the byte count (0: an empty body),
\* decodable says whether PIL's Image.open accepts it, w and h are the
\* decoded raster's dimensions, and fit is the set of <<quality, scale>>
\* encodes of the (pre-shrunk) raster whose WebP size is within the budget.
EmptyBody == [len |-> 0, decodable |-> FALSE, w |-> 0, h |-> 0, fit |-> {}]

JunkBody == [len |-> 1, decodable |-> FALSE, w |-> 0, h |-> 0, fit |-> {}]

ImageBody(w, h, fit) ==
    [len |-> 1, decodable |-> TRUE, w |-> w, h |-> h, fit |-> fit]

\* The encodes to_webp_show can ask for: each ladder quality and the last
\* quality on the unscaled raster, and each ladder scale at ScaleQuality.
EncodeKeys ==
    {<<QualityLadder[i], FullScale>> : i \in 1..Len(QualityLadder)}
        \cup {<<LastQuality, FullScale>>}
        \cup {<<ScaleQuality, ScaleLadder[i]>> : i \in 1..Len(ScaleLadder)}

RECURSIVE SubsetsUpTo(_, _)
SubsetsUpTo(S, k) ==
    IF k = 0 THEN {{}}
    ELSE LET P == SubsetsUpTo(S, k - 1)
         IN  P \cup {p \cup {x} : p \in P, x \in S}

\* Source dimensions: below, at and above the pre-shrink cap.
SourceDims == {3, 400, 401, 1000}

\* ---------------------------------------------------------- PIL rasters
\* Image.thumbnail((400, 400)): no change when both dimensions fit, else
\* the aspect-preserving size whose rounded side is the floor or the ceiling
\* of the exact value, whichever keeps the aspect ratio closer (the floor on
\* a tie), and at least 1.
RoundAspectW(w, h, y) ==
    LET f == (y * w) \div h
        c == IF f * h = y * w THEN f ELSE f + 1
        kf == Abs(y * w - f * h)
        kc == Abs(y * w - c * h)
    IN  Max2(IF kf <= kc THEN f ELSE c, 1)

RoundAspectH(w, h, x) ==
    LET f == (x * h) \div w
        c == IF f * w = x * h THEN f ELSE f + 1
        kf == IF f = 0 THEN 0 ELSE Abs(w * f - x * h) * c
        kc == Abs(w * c - x * h) * f
    IN  Max2(IF kf <= kc THEN f ELSE c, 1)

\* Mutant: no pre-shrink.
ThumbnailKeeps(w, h, cap) == <<w, h>>

Thumbnail(w, h, cap) ==
    IF cap >= w /\ cap >= h THEN <<w, h>>
    ELSE IF h >= w THEN <<RoundAspectW(w, h, cap), cap>>
         ELSE <<cap, RoundAspectH(w, h, cap)>>

\* int(d * scale) for scale = pct / 100 as a binary double: 0.35 lies just
\* below 35/100, and for d in 1..400 the product truncates one below the
\* exact quotient exactly at d = 180, 340 and 360.
ScaleDim(d, pct) ==
    LET exact == (d * pct) \div 100
    IN  IF pct = 35 /\ d \in {180, 340, 360} THEN exact - 1 ELSE exact

\* ---------------------------------------------------------- Transcoder
\* Mutant: the comparison lets one byte over the budget through.
FitsOffByOne(size) == size <= SHOW_MAX_BYTES + 1

\* buf.tell() <= SHOW_MAX_BYTES
Fits(size) == size <= SHOW_MAX_BYTES

\* The size of the WebP encoding of raster r at <<quality, scale>>.
EncodedSize(r, quality, pct) ==
    IF <<quality, pct>> \in r.fit THEN SHOW_MAX_BYTES ELSE SHOW_MAX_BYTES + 1

\* img.save(buf, format="WEBP", quality=quality, method=6) of raster r
\* resized to pct percent.
SaveWebp(r, quality, pct) ==
    [lossless |-> FALSE, quality |-> quality, scale |-> pct,
     w |-> IF pct = FullScale THEN r.w ELSE Max2(1, ScaleDim(r.w, pct)),
     h |-> IF pct = FullScale THEN r.h ELSE Max2(1, ScaleDim(r.h, pct)),
     size |-> EncodedSize(r, quality, pct), label |-> ""]

\* What a transcode returns: failed (an exception), or the bytes, the branch
\* that produced them and every encode attempted on the way, in order.
NoBytes ==
    [lossless |-> FALSE, quality |-> 0, scale |-> 0, w |-> 0, h |-> 0,
     size |-> 0, label |-> ""]

TranscodeFailed ==
    [failed |-> TRUE, branch |-> "none", bytes |-> NoBytes, attempts |-> <<>>]

Transcoded(bytes, branch, attempts) ==
    [failed |-> FALSE, branch |-> branch, bytes |-> bytes, attempts |-> attempts]

\* Mutant: the function ends without a return value.
BestEffortNone(r, tried) == TranscodeFailed

\* Return whatever we have at minimum quality: the unscaled raster.
BestEffort(r, tried) ==
    LET e == SaveWebp(r, LastQuality, FullScale)
    IN  Transcoded(e, "best_effort", Append(tried, e))

RECURSIVE ScaleSearch(_, _, _)
ScaleSearch(r, i, tried) ==
    IF i > Len(ScaleLadder) THEN BestEffort(r, tried)
    ELSE LET e == SaveWebp(r, ScaleQuality, ScaleLadder[i])
         IN  IF Fits(e.size) THEN Transcoded(e, "scale", Append(tried, e))
             ELSE ScaleSearch(r, i + 1, Append(tried, e))

\* Mutant: the first level that does not fit ends the quality ladder.
QualitySearchGivesUp(r, i, tried) ==
    LET e == SaveWebp(r, QualityLadder[i], FullScale)
    IN  IF Fits(e.size) THEN Transcoded(e, "quality", Append(tried, e))
        ELSE ScaleSearch(r, 1, Append(tried, e))

RECURSIVE QualitySearch(_, _, _)
QualitySearch(r, i, tried) ==
    IF i > Len(QualityLadder) THEN ScaleSearch(r, 1, tried)
    ELSE LET e == SaveWebp(r, QualityLadder[i], FullScale)
         IN  IF Fits(e.size) THEN Transcoded(e, "quality", Append(tried, e))
             ELSE QualitySearch(r, i + 1, Append(tried, e))

\* Image.open(...).convert("RGBA") followed by the pre-shrink.
PreShrunk(raw) ==
    LET d == Thumbnail(raw.w, raw.h, MaxDim)
    IN  [w |-> d[1], h |-> d[2], fit |-> raw.fit]

to_webp_show(raw) ==
    IF ~raw.decodable THEN TranscodeFailed
    ELSE QualitySearch(PreShrunk(raw), 1, <<>>)

\* Lossless encode of the decoded raster, no resize.  A lossless encode has
\* no byte budget; its size is taken above it.
to_webp_channel(raw) ==
    IF ~raw.decodable THEN TranscodeFailed
    ELSE LET e == [lossless |-> TRUE, quality |-> 100, scale |-> FullScale,
                   w |-> raw.w, h |-> raw.h, size |-> 2 * SHOW_MAX_BYTES,
                   label |-> ""]
         IN  Transcoded(e, "identity", <<e>>)

\* ------------------------------------------------ Placeholder Synthesizer
\* make_placeholder(initials) is a 200 x 200 raster; for a show it is saved
\* lossy at quality 40 (thumbnail((200, 200)) leaves 200 x 200 unchanged),
\* for a channel lossless.  No budget search: the size is what it is.
placeholder_webp(initials, is_show) ==
    LET d == Thumbnail(200, 200, 200)
    IN  [lossless |-> ~is_show, quality |-> IF is_show THEN 40 ELSE 0,
         scale |-> FullScale,
         w |-> IF is_show THEN d[1] ELSE 200,
         h |-> IF is_show THEN d[2] ELSE 200,
         size |-> IF is_show THEN 1024 ELSE 2048, label |-> initials]

\* ------------------------------------------------------------- Fetcher
\* Bodies a server of the modelled web answers with: nothing, bytes that are
\* no image, and rasters whose budget search ends in the quality ladder, in
\* the scale ladder and in the final encode.
UrlFit(qualities, scales) ==
    {<<q, FullScale>> : q \in qualities} \cup {<<ScaleQuality, s>> : s \in scales}

SmallImage == ImageBody(3, 400, UrlFit({40, 10}, {75, 25}))

LargeImage == ImageBody(1000, 400, UrlFit({}, {35, 25}))

DenseImage == ImageBody(1000, 1000, UrlFit({}, {}))

WebBodies == {EmptyBody, JunkBody, SmallImage, LargeImage, DenseImage}

\* What a request can raise: a transport error (URLError), a timeout
\* (TimeoutError) and a non-success response (HTTPError), all of them
\* subclasses of Exception.
RequestErrors == {"URLError", "TimeoutError", "HTTPError"}

\* One attempt's outcome: urlopen(...).read() returned body, or raised.
Raises(error) == [ok |-> FALSE, body |-> EmptyBody, error |-> error]

Failure == Raises("URLError")

Response(body) == [ok |-> TRUE, body |-> body, error |-> "none"]

\* Mutant: the handler is written for transport errors only.
ExceptURLError(o) == o.error = "URLError"

\* except Exception as e: catches whatever the request raised.
ExceptException(o) == o.error \in RequestErrors

\* The outcomes of the attempts of one call: no attempt follows a success.
AttemptOutcomes ==
    {outs \in [1..RETRY_ATTEMPTS -> {Failure} \cup {Response(b) : b \in WebBodies}] :
        \A a \in 1..RETRY_ATTEMPTS :
            outs[a].ok => \A b \in (a + 1)..RETRY_ATTEMPTS : outs[b] = Failure}

\* download_image returns None or the bytes read.
NoneRaw == [isNone |-> TRUE, body |-> EmptyBody]

SomeRaw(body) == [isNone |-> FALSE, body |-> body]

\* Python's truth value of raw: None and b"" are false.
Truthy(raw) == ~raw.isNone /\ raw.body.len > 0

\* What a call of download_image did: the value it returned, or that an
\* exception left it, and its requests ("get") and backoffs ("sleep") in
\* order.
Fetched(value, raised, events) ==
    [value |-> value, raised |-> raised, events |-> events]

\* The loop of download_image over the attempts' outcomes outs, from attempt
\* index a (0-based).
RECURSIVE DownloadFrom(_, _, _)
DownloadFrom(outs, a, events) ==
    IF a >= RETRY_ATTEMPTS THEN Fetched(NoneRaw, FALSE, events)
    ELSE IF outs[a + 1].ok
         THEN Fetched(SomeRaw(outs[a + 1].body), FALSE, Append(events, "get"))
         ELSE IF ~ExceptException(outs[a + 1])
              THEN Fetched(NoneRaw, TRUE, Append(events, "get"))
              ELSE IF a < RETRY_ATTEMPTS - 1
                   THEN DownloadFrom(outs, a + 1, events \o <<"get", "sleep">>)
                   ELSE Fetched(NoneRaw, FALSE, Append(events, "get"))

download_image(outs) == DownloadFrom(outs, 0, <<>>)

\* ------------------------------------------------------------- state
VARIABLES
    tasks,      \* the task list main submits (pass 1's output)
    fs,         \* the backing store: what each destination path holds
    dirs,       \* the channel folders that exist under IMAGES_DIR
    pc,         \* each task's position in process_image
    raw,        \* process_image's raw
    webp,       \* process_image's webp_bytes and used_placeholder
    result,     \* each future's result (or exception)
    fetched,    \* how often process_image called download_image for the task
    mainpc,     \* main's position in pass 2
    collected,  \* the futures as_completed has yielded
    counts,     \* main's ok, skipped, placeholder and failed
    reported,   \* the outcomes main counted for each task, in order
    wcount,     \* write_bytes calls per destination path in this run
    run,        \* "first" or "second" run of the program over the store
    first,      \* reported, as the first run left it
    before,     \* the store as the run found it
    workers,    \* max_workers of the ThreadPoolExecutor
    refs,       \* the destinations pass 3 has pointed the references at
    img,        \* SearchSpec: the body handed to the Transcoder
    out,        \* SearchSpec: what the Transcoder returned
    attempts,   \* FetchSpec: what each HTTP attempt of one call would give
    fetch,      \* FetchSpec: what download_image did and returned
    label,      \* InitialsSpec: the name handed to get_initials
    initials,   \* InitialsSpec: what get_initials returned
    schedule,   \* PlanSpec: the parsed JSON files, in sorted order
    plan,       \* PlanSpec: what pass 1 of main built
    dest,       \* UrlSpec: a destination, as channel folder and file name
    urls        \* UrlSpec: what the two URL builders returned for it

runnerVars ==
    <<tasks, fs, dirs, pc, raw, webp, result, fetched, mainpc, collected,
      counts, reported, wcount, run, first, before, workers, refs>>

searchVars == <<img, out>>

fetchVars == <<attempts, fetch>>

initialsVars == <<label, initials>>

planVars == <<schedule, plan>>

urlVars == <<dest, urls>>

\* The variables of the specifications of single functions.
pureVars == <<searchVars, fetchVars, initialsVars, planVars, urlVars>>

vars == <<runnerVars, pureVars>>

MAX_WORKERS == 25

\* ------------------------------------------------------------- store
\* IMAGES_DIR / channel_folder / filename of the i-th task: the first two
\* tasks share a channel folder.
Folder(i) == IF i <= 2 THEN "A" ELSE "B"

\* Mutant: the caller does not deduplicate, every task has one destination.
DestPathShared(i) == [folder |-> "A", file |-> 1]

DestPath(i) == [folder |-> Folder(i), file |-> i]

Paths == {DestPath(i) : i \in 1..MaxTasks}

Absent == [state |-> "absent", bytes |-> NoBytes]

PartialFile == [state |-> "partial", bytes |-> NoBytes]

File(bytes) == [state |-> "complete", bytes |-> bytes]

\* An artifact left by an earlier execution of the program.
OldFile == File(placeholder_webp("OLD", TRUE))

\* dest_path.exists()
Exists(store, p) == store[p].state # "absent"

\* A task's URL is empty or names a resource of the web.
URLs == {"", "http://logo"}

Task(i, url, is_channel) ==
    [url |-> url, dest_path |-> DestPath(i), initials |-> "TELE",
     is_channel |-> is_channel]

\* The deduplicated task lists: pairwise distinct destination paths.
TaskLists ==
    UNION {{[i \in 1..n |-> Task(i, u[i], c[i])] :
                u \in [1..n -> URLs], c \in [1..n -> BOOLEAN]} : n \in 0..MaxTasks}

\* via is not in the program: it remembers the branch of the transcode (or
\* "placeholder") that produced the bytes.
NoResult == [status |-> "none", size |-> 0, via |-> "none"]

NoWebp == [bytes |-> NoBytes, used_placeholder |-> FALSE, via |-> "none"]

Tasks == 1..Len(tasks)

Idle(n) ==
    /\ pc = [i \in 1..n |-> "unsubmitted"]
    /\ raw = [i \in 1..n |-> NoneRaw]
    /\ webp = [i \in 1..n |-> NoWebp]
    /\ result = [i \in 1..n |-> NoResult]
    /\ fetched = [i \in 1..n |-> 0]
    /\ mainpc = "submit"
    /\ collected = {}
    /\ counts = [ok |-> 0, skipped |-> 0, placeholder |-> 0, failed |-> 0]
    /\ reported = [i \in 1..n |-> <<>>]
    /\ wcount = [p \in Paths |-> 0]

\* No transcode applied yet.
Pending ==
    [failed |-> FALSE, branch |-> "pending", bytes |-> NoBytes, attempts |-> <<>>]

SearchIdle ==
    /\ img = EmptyBody
    /\ out = Pending

\* download_image not called yet.
NotFetched == [called |-> FALSE, did |-> Fetched(NoneRaw, FALSE, <<>>)]

FetchIdle ==
    /\ attempts = <<>>
    /\ fetch = NotFetched

\* get_initials not called yet.
NoInitials == [called |-> FALSE, value |-> <<>>]

InitialsIdle ==
    /\ label = <<>>
    /\ initials = NoInitials

\* Pass 1 not run yet.
NoPlan == [built |-> FALSE, tasks |-> <<>>, seen |-> {}]

PlanIdle ==
    /\ schedule = <<>>
    /\ plan = NoPlan

\* Pass 3 not run yet.
NoRefs == [patched |-> FALSE, paths |-> {}]

\* The URL builders not called yet.
NoUrls == [called |-> FALSE, new |-> <<>>, parts |-> <<>>]

UrlIdle ==
    /\ dest = [folder |-> <<>>, file |-> <<>>]
    /\ urls = NoUrls

\* main before pass 2, with a pool of one of the given sizes.
RunInit(poolSizes) ==
    /\ tasks \in TaskLists
    /\ fs \in [Paths -> {Absent, OldFile}]
    /\ \A i \in 1..MaxTasks : i > Len(tasks) => fs[DestPath(i)] = Absent
    /\ dirs = {p.folder : p \in {q \in Paths : Exists(fs, q)}}
    /\ Idle(Len(tasks))
    /\ run = "first"
    /\ first = [i \in 1..Len(tasks) |-> <<>>]
    /\ before = fs
    /\ workers \in poolSizes
    /\ refs = NoRefs
    /\ SearchIdle
    /\ FetchIdle
    /\ InitialsIdle
    /\ PlanIdle
    /\ UrlIdle

Init == RunInit({MAX_WORKERS})

\* ------------------------------------------------------- process_image
\* Tasks a worker thread is executing.
Running == {i \in Tasks : pc[i] \in {"exists", "mkdir", "acquire", "convert", "write"}}

Queued == {i \in Tasks : pc[i] = "queued"}

\* Mutant: a thread is started for every work item.
StartUnbounded(i) ==
    /\ pc[i] = "queued"
    /\ \A j \in Queued : i <= j
    /\ pc' = [pc EXCEPT ![i] = "exists"]
    /\ UNCHANGED <<tasks, fs, dirs, raw, webp, result, fetched, mainpc,
                   collected, counts, reported, wcount, run, first, before,
                   workers, refs, pureVars>>

\* A free worker thread takes the oldest queued work item.
Start(i) ==
    /\ pc[i] = "queued"
    /\ \A j \in Queued : i <= j
    /\ Cardinality(Running) < workers
    /\ pc' = [pc EXCEPT ![i] = "exists"]
    /\ UNCHANGED <<tasks, fs, dirs, raw, webp, result, fetched, mainpc,
                   collected, counts, reported, wcount, run, first, before,
                   workers, refs, pureVars>>

\* Mutant: the existence check never short-circuits.
CheckExistsNever(i) ==
    /\ pc[i] = "exists"
    /\ pc' = [pc EXCEPT ![i] = "mkdir"]
    /\ UNCHANGED <<tasks, fs, dirs, raw, webp, result, fetched, mainpc,
                   collected, counts, reported, wcount, run, first, before,
                   workers, refs, pureVars>>

\* Mutant: the skip path refreshes the artifact with a placeholder.
CheckExistsRewrites(i) ==
    /\ pc[i] = "exists"
    /\ IF Exists(fs, tasks[i].dest_path)
       THEN /\ pc' = [pc EXCEPT ![i] = "returned"]
            /\ result' = [result EXCEPT ![i] = [status |-> "skipped", size |-> 0, via |-> "none"]]
            /\ fs' = [fs EXCEPT ![tasks[i].dest_path] =
                          File(placeholder_webp(tasks[i].initials, ~tasks[i].is_channel))]
       ELSE /\ pc' = [pc EXCEPT ![i] = "mkdir"]
            /\ UNCHANGED <<result, fs>>
    /\ UNCHANGED <<tasks, dirs, raw, webp, fetched, mainpc, collected,
                   counts, reported, wcount, run, first, before, workers,
                   refs, pureVars>>

\* if dest_path.exists(): return {"dest_path": dest_path, "status": "skipped"}
CheckExists(i) ==
    /\ pc[i] = "exists"
    /\ IF Exists(fs, tasks[i].dest_path)
       THEN /\ pc' = [pc EXCEPT ![i] = "returned"]
            /\ result' = [result EXCEPT ![i] = [status |-> "skipped", size |-> 0, via |-> "none"]]
       ELSE /\ pc' = [pc EXCEPT ![i] = "mkdir"]
            /\ UNCHANGED result
    /\ UNCHANGED <<tasks, fs, dirs, raw, webp, fetched, mainpc, collected,
                   counts, reported, wcount, run, first, before,
                   workers, refs, pureVars>>

\* The exception a filesystem call raises, as the future holds it.
Raised == [status |-> "exception", size |-> 0, via |-> "none"]

\* dest_path.parent.mkdir(parents=True, exist_ok=True): the folder exists
\* afterwards, or the call raises OSError out of process_image.
Mkdir(i) ==
    /\ pc[i] = "mkdir"
    /\ \/ /\ dirs' = dirs \cup {tasks[i].dest_path.folder}
          /\ pc' = [pc EXCEPT ![i] = "acquire"]
          /\ UNCHANGED result
       \/ /\ tasks[i].dest_path.folder \notin dirs
          /\ pc' = [pc EXCEPT ![i] = "raised"]
          /\ result' = [result EXCEPT ![i] = Raised]
          /\ UNCHANGED dirs
    /\ UNCHANGED <<tasks, fs, raw, webp, fetched, mainpc, collected, counts,
                   reported, wcount, run, first, before,
                   workers, refs, pureVars>>

\* Mutant: download_image is called whatever the URL is.
AcquireAlways(i) ==
    /\ pc[i] = "acquire"
    /\ \E outs \in AttemptOutcomes :
          LET d == download_image(outs)
          IN  /\ raw' = [raw EXCEPT ![i] = d.value]
              /\ fetched' = [fetched EXCEPT ![i] = @ + 1]
    /\ pc' = [pc EXCEPT ![i] = "convert"]
    /\ UNCHANGED <<tasks, fs, dirs, webp, result, mainpc, collected, counts,
                   reported, wcount, run, first, before, workers, refs, pureVars>>

\* if url: raw = download_image(url) else: raw = None
Acquire(i) ==
    /\ pc[i] = "acquire"
    /\ IF tasks[i].url # ""
       THEN \E outs \in AttemptOutcomes :
                LET d == download_image(outs)
                IN  /\ raw' = [raw EXCEPT ![i] = d.value]
                    /\ fetched' = [fetched EXCEPT ![i] = @ + 1]
       ELSE /\ raw' = [raw EXCEPT ![i] = NoneRaw]
            /\ UNCHANGED fetched
    /\ pc' = [pc EXCEPT ![i] = "convert"]
    /\ UNCHANGED <<tasks, fs, dirs, webp, result, mainpc, collected, counts,
                   reported, wcount, run, first, before,
                   workers, refs, pureVars>>

\* The transcode process_image asks for.
Transcode(body, is_channel) ==
    IF is_channel THEN to_webp_channel(body) ELSE to_webp_show(body)

\* Mutant: the except branch substitutes the placeholder without setting
\* used_placeholder.
ConvertedUnflagged(task, r) ==
    LET t == Transcode(r.body, task.is_channel)
    IN  IF Truthy(r)
        THEN [bytes |-> IF t.failed
                        THEN placeholder_webp(task.initials, ~task.is_channel)
                        ELSE t.bytes,
              used_placeholder |-> FALSE, via |-> t.branch]
        ELSE [bytes |-> placeholder_webp(task.initials, ~task.is_channel),
              used_placeholder |-> TRUE, via |-> "placeholder"]

\* if raw: try the transcode, and on an exception or without raw fall back
\* to the placeholder.
Converted(task, r) ==
    LET t == Transcode(r.body, task.is_channel)
    IN  IF Truthy(r) /\ ~t.failed
        THEN [bytes |-> t.bytes, used_placeholder |-> FALSE, via |-> t.branch]
        ELSE [bytes |-> placeholder_webp(task.initials, ~task.is_channel),
              used_placeholder |-> TRUE, via |-> "placeholder"]

Convert(i) ==
    /\ pc[i] = "convert"
    /\ webp' = [webp EXCEPT ![i] = Converted(tasks[i], raw[i])]
    /\ pc' = [pc EXCEPT ![i] = "write"]
    /\ UNCHANGED <<tasks, fs, dirs, raw, result, fetched, mainpc, collected,
                   counts, reported, wcount, run, first, before,
                   workers, refs, pureVars>>

\* The result dict process_image returns after the write.
Returned(w) ==
    [status |-> IF w.used_placeholder THEN "placeholder" ELSE "ok",
     size |-> w.bytes.size, via |-> w.via]

\* dest_path.write_bytes(webp_bytes) opens the file for writing, which
\* creates it empty, and writes the bytes: it completes, or raises OSError
\* before the file is created, or raises after it was created and before
\* all bytes are in it.
Write(i) ==
    /\ pc[i] = "write"
    /\ LET p == tasks[i].dest_path
       IN  /\ wcount' = [wcount EXCEPT ![p] = @ + 1]
           /\ \/ /\ fs' = [fs EXCEPT ![p] = File(webp[i].bytes)]
                 /\ pc' = [pc EXCEPT ![i] = "returned"]
                 /\ result' = [result EXCEPT ![i] = Returned(webp[i])]
              \/ /\ UNCHANGED fs
                 /\ pc' = [pc EXCEPT ![i] = "raised"]
                 /\ result' = [result EXCEPT ![i] = Raised]
              \/ /\ fs' = [fs EXCEPT ![p] = PartialFile]
                 /\ pc' = [pc EXCEPT ![i] = "raised"]
                 /\ result' = [result EXCEPT ![i] = Raised]
    \* process_image is left: its locals are gone
    /\ raw' = [raw EXCEPT ![i] = NoneRaw]
    /\ webp' = [webp EXCEPT ![i] = NoWebp]
    /\ fetched' = [fetched EXCEPT ![i] = 0]
    /\ UNCHANGED <<tasks, dirs, mainpc, collected, counts, reported, run,
                   first, before,
                   workers, refs, pureVars>>

\* ---------------------------------------------------------------- main
Unsubmitted == {i \in Tasks : pc[i] = "unsubmitted"}

\* futures = {executor.submit(process_image, task): task for task in tasks}
Submit(i) ==
    /\ mainpc = "submit"
    /\ i \in Unsubmitted
    /\ \A j \in Unsubmitted : i <= j
    /\ pc' = [pc EXCEPT ![i] = "queued"]
    /\ UNCHANGED <<tasks, fs, dirs, raw, webp, result, fetched, mainpc,
                   collected, counts, reported, wcount, run, first, before,
                   workers, refs, pureVars>>

\* Every task is submitted: main enters the as_completed loop.
BeginCollect ==
    /\ mainpc = "submit"
    /\ Unsubmitted = {}
    /\ mainpc' = "collect"
    /\ UNCHANGED <<tasks, fs, dirs, pc, raw, webp, result, fetched, collected,
                   counts, reported, wcount, run, first, before,
                   workers, refs, pureVars>>

\* Mutant: a task's exception is counted with the placeholders.
OutcomeMasked(r) ==
    CASE r.status = "skipped"     -> "skipped"
      [] r.status = "ok"          -> "ok"
      [] OTHER                    -> "placeholder"

\* The counter the body of the as_completed loop adds to for a future:
\* future.result() re-raises the task's exception, which the except clause
\* counts as failed.
Outcome(r) ==
    CASE r.status = "exception"   -> "failed"
      [] r.status = "skipped"     -> "skipped"
      [] r.status = "placeholder" -> "placeholder"
      [] OTHER                    -> "ok"

\* Mutant: no try/except around future.result(): a task's exception leaves
\* the loop and main.
CollectUncaught(i) ==
    /\ mainpc = "collect"
    /\ i \notin collected
    /\ pc[i] \in {"returned", "raised"}
    /\ collected' = collected \cup {i}
    /\ IF pc[i] = "raised"
       THEN /\ mainpc' = "aborted"
            /\ UNCHANGED <<counts, reported>>
       ELSE /\ counts' = [counts EXCEPT ![Outcome(result[i])] = @ + 1]
            /\ reported' = [reported EXCEPT ![i] = Append(@, Outcome(result[i]))]
            /\ UNCHANGED mainpc
    /\ UNCHANGED <<tasks, fs, dirs, pc, raw, webp, result, fetched, wcount,
                   run, first, before,
                   workers, refs, pureVars>>

\* Mutant: a task that raised is put back on the queue.
CollectRetries(i) ==
    /\ mainpc = "collect"
    /\ i \notin collected
    /\ pc[i] \in {"returned", "raised"}
    /\ IF pc[i] = "raised"
       THEN /\ pc' = [pc EXCEPT ![i] = "queued"]
            /\ UNCHANGED <<collected, counts, reported>>
       ELSE /\ collected' = collected \cup {i}
            /\ counts' = [counts EXCEPT ![Outcome(result[i])] = @ + 1]
            /\ reported' = [reported EXCEPT ![i] = Append(@, Outcome(result[i]))]
            /\ UNCHANGED pc
    /\ UNCHANGED <<tasks, fs, dirs, raw, webp, result, fetched, mainpc,
                   wcount, run, first, before, workers, refs, pureVars>>

\* Mutant: a placeholder is counted as a download as well.
CollectCountsTwice(i) ==
    /\ mainpc = "collect"
    /\ i \notin collected
    /\ pc[i] \in {"returned", "raised"}
    /\ collected' = collected \cup {i}
    /\ counts' = IF Outcome(result[i]) = "placeholder"
                 THEN [counts EXCEPT !.placeholder = @ + 1, !.ok = @ + 1]
                 ELSE [counts EXCEPT ![Outcome(result[i])] = @ + 1]
    /\ reported' = [reported EXCEPT ![i] = Append(@, Outcome(result[i]))]
    /\ UNCHANGED <<tasks, fs, dirs, pc, raw, webp, result, fetched, mainpc,
                   wcount, run, first, before, workers, refs, pureVars>>

\* One iteration of: for future in as_completed(futures)
Collect(i) ==
    /\ mainpc = "collect"
    /\ i \notin collected
    /\ pc[i] \in {"returned", "raised"}
    /\ collected' = collected \cup {i}
    /\ counts' = [counts EXCEPT ![Outcome(result[i])] = @ + 1]
    /\ reported' = [reported EXCEPT ![i] = Append(@, Outcome(result[i]))]
    /\ UNCHANGED <<tasks, fs, dirs, pc, raw, webp, result, fetched, mainpc,
                   wcount, run, first, before,
                   workers, refs, pureVars>>

\* as_completed is exhausted and the executor is shut down: pass 2 is over.
Finish ==
    /\ mainpc = "collect"
    /\ collected = Tasks
    /\ mainpc' = "done"
    /\ UNCHANGED <<tasks, fs, dirs, pc, raw, webp, result, fetched, collected,
                   counts, reported, wcount, run, first, before,
                   workers, refs, pureVars>>

\* The program is started again over the same task set and the store as the
\* first run left it.
Rerun ==
    /\ mainpc = "done"
    /\ run = "first"
    /\ run' = "second"
    /\ first' = reported
    /\ pc' = [i \in Tasks |-> "unsubmitted"]
    /\ raw' = [i \in Tasks |-> NoneRaw]
    /\ webp' = [i \in Tasks |-> NoWebp]
    /\ result' = [i \in Tasks |-> NoResult]
    /\ fetched' = [i \in Tasks |-> 0]
    /\ mainpc' = "submit"
    /\ collected' = {}
    /\ counts' = [ok |-> 0, skipped |-> 0, placeholder |-> 0, failed |-> 0]
    /\ reported' = [i \in Tasks |-> <<>>]
    /\ wcount' = [p \in Paths |-> 0]
    /\ before' = fs
    /\ UNCHANGED <<tasks, fs, dirs, workers, refs, pureVars>>

Worker(i) ==
    \/ Start(i)
    \/ CheckExists(i)
    \/ Mkdir(i)
    \/ Acquire(i)
    \/ Convert(i)
    \/ Write(i)

\* One step of one execution of the program.
RunStep ==
    \/ \E i \in Tasks : Submit(i)
    \/ BeginCollect
    \/ \E i \in Tasks : Worker(i)
    \/ \E i \in Tasks : Collect(i)
    \/ Finish

Next == RunStep

Spec == Init /\ [][Next]_vars

\* Threads that can run do run, and main's loop goes on: every enabled step
\* of an execution is eventually taken.
FairSpec == Spec /\ WF_vars(RunStep)

\* The program with a pool of 1 to MaxTasks threads.  Every thread that can
\* take a step does, except that the fetch of the first task may never
\* return.
PoolInit == RunInit(1..MaxTasks)

Unblocked ==
    \/ \E i \in Tasks : Submit(i)
    \/ BeginCollect
    \/ \E i \in Tasks : Start(i) \/ CheckExists(i) \/ Mkdir(i) \/ Convert(i) \/ Write(i)
    \/ \E i \in Tasks \ {1} : Acquire(i)
    \/ \E i \in Tasks : Collect(i)
    \/ Finish

PoolSpec == PoolInit /\ [][Next]_vars /\ WF_vars(Unblocked)

\* Pass 3: every channel_logo, and the show_logo of every programme with a
\* show_name, is set to the URL of channel_folder / f"{slug}.webp".  These
\* are the destinations of the tasks of pass 1, whatever became of them.
RewriteReferences ==
    /\ mainpc = "done"
    /\ ~refs.patched
    /\ refs' = [patched |-> TRUE, paths |-> {tasks[i].dest_path : i \in Tasks}]
    /\ UNCHANGED <<tasks, fs, dirs, pc, raw, webp, result, fetched, mainpc,
                   collected, counts, reported, wcount, run, first, before,
                   workers, pureVars>>

\* One execution of main, pass 2 and pass 3.
MainNext == RunStep \/ RewriteReferences

MainSpec == Init /\ [][MainNext]_vars

\* Two executions of the program, one after the other, over one store.
TwoRunNext == RunStep \/ Rerun

TwoRunSpec == Init /\ [][TwoRunNext]_vars

\* ----------------------------------------------------------- SearchSpec
SearchBodies ==
    {EmptyBody, JunkBody}
        \cup {ImageBody(w, h, f) :
                w \in SourceDims, h \in SourceDims,
                f \in SubsetsUpTo(EncodeKeys, MaxFit)}

\* main is not running.
NoRun ==
    /\ tasks = <<>>
    /\ fs = [p \in Paths |-> Absent]
    /\ dirs = {}
    /\ Idle(0)
    /\ run = "first"
    /\ first = <<>>
    /\ before = fs
    /\ workers = MAX_WORKERS
    /\ refs = NoRefs

SearchInit ==
    /\ NoRun
    /\ img \in SearchBodies
    /\ out = Pending
    /\ FetchIdle
    /\ InitialsIdle
    /\ PlanIdle
    /\ UrlIdle

ApplyShow ==
    /\ out = Pending
    /\ out' = to_webp_show(img)
    /\ UNCHANGED <<img, runnerVars, fetchVars, initialsVars, planVars,
                   urlVars>>

ApplyChannel ==
    /\ out = Pending
    /\ out' = to_webp_channel(img)
    /\ UNCHANGED <<img, runnerVars, fetchVars, initialsVars, planVars,
                   urlVars>>

SearchNext == ApplyShow \/ ApplyChannel

SearchSpec == SearchInit /\ [][SearchNext]_vars

\* --------------------------------------------------------- InitialsSpec
\* Characters of the labels: a lower-case and an upper-case letter, a
\* space, and a letter whose uppercase is two characters.
LabelChars == {"a", "B", " ", "ß"}

RECURSIVE StringsUpTo(_, _)
StringsUpTo(chars, n) ==
    IF n = 0 THEN {<<>>}
    ELSE LET shorter == StringsUpTo(chars, n - 1)
         IN  shorter \cup {Append(w, c) : w \in shorter, c \in chars}

\* 'Naked And Afraid', 'Teleshopping', 'DMAX' and 'Fußball'.
ExampleLabels ==
    {<<"N", "a", "k", "e", "d", " ", "A", "n", "d", " ",
      "A", "f", "r", "a", "i", "d">>,
     <<"T", "e", "l", "e", "s", "h", "o", "p", "p", "i", "n", "g">>,
     <<"D", "M", "A", "X">>,
     <<"F", "u", "ß", "b", "a", "l", "l">>}

Labels == StringsUpTo(LabelChars, MaxLabel) \cup ExampleLabels

InitialsInit ==
    /\ NoRun
    /\ SearchIdle
    /\ FetchIdle
    /\ label \in Labels
    /\ initials = NoInitials
    /\ PlanIdle
    /\ UrlIdle

ApplyInitials ==
    /\ ~initials.called
    /\ initials' = [called |-> TRUE, value |-> get_initials(label)]
    /\ UNCHANGED <<label, runnerVars, searchVars, fetchVars, planVars,
                   urlVars>>

InitialsNext == ApplyInitials

InitialsSpec == InitialsInit /\ [][InitialsNext]_vars

\* ------------------------------------------------------------- PlanSpec
\* Pass 1 of main over the parsed JSON files.  A file is its channel_name,
\* its channel_logo and its programmes (those of all days, in order), each
\* a show_name and a show_logo.
\* The key is present: nothing is added.  Else the key is added to seen and
\* the task is appended.
AddTask(st, key, task) ==
    IF key \in st.seen THEN st
    ELSE [seen |-> st.seen \cup {key}, tasks |-> Append(st.tasks, task)]

\* The loop over the programmes of one file, from programme k.
RECURSIVE AddShows(_, _, _, _)
AddShows(st, channel_folder, progs, k) ==
    IF k > Len(progs) THEN st
    ELSE IF progs[k].show_name = <<>> THEN AddShows(st, channel_folder, progs, k + 1)
         ELSE LET show_slug == slugify(progs[k].show_name)
                  show_dest == JoinPath(JoinPath(IMAGES_DIR, channel_folder),
                                        WebpName(show_slug))
                  task == [url |-> progs[k].show_logo, dest_path |-> show_dest,
                           initials |-> get_initials(progs[k].show_name),
                           is_channel |-> FALSE]
              IN  AddShows(AddTask(st, <<channel_folder, show_slug>>, task),
                           channel_folder, progs, k + 1)

\* The loop over the JSON files, from file f.
RECURSIVE AddFiles(_, _, _)
AddFiles(st, files, f) ==
    IF f > Len(files) THEN st
    ELSE LET channel_name == files[f].channel_name
             channel_folder == channel_name
             channel_slug == slugify(channel_name)
             ch_dest_path == JoinPath(JoinPath(IMAGES_DIR, channel_folder),
                                      WebpName(channel_slug))
             task == [url |-> files[f].channel_logo, dest_path |-> ch_dest_path,
                      initials |-> get_initials(channel_name),
                      is_channel |-> TRUE]
             withChannel == AddTask(st, <<channel_folder, channel_slug>>, task)
         IN  AddFiles(AddShows(withChannel, channel_folder, files[f].programmes, 1),
                      files, f + 1)

\* seen and tasks as pass 1 leaves them (url_map is written and never read).
Pass1(files) == AddFiles([seen |-> {}, tasks |-> <<>>], files, 1)

\* Channel names: a plain one, the same with a trailing slash, and one that
\* differs in case only.
ChannelNames == {<<"A">>, <<"A", "/">>, <<"a">>}

\* Show names: none, the slug of channel "A", and one that slugify rewrites.
ShowNames == {<<>>, <<"a">>, <<"A", "_", " ", "a", "!">>}

\* The programmes of one file, with the logo reference they all have.
Programmes(logo) ==
    UNION {[1..m -> {[show_name |-> n, show_logo |-> logo] : n \in ShowNames}] :
              m \in 0..MaxProgs}

\* The files of one schedule/ directory; its logo references are all empty
\* or all name a resource.
Files(logo) ==
    {[channel_name |-> c, channel_logo |-> logo, programmes |-> ps] :
        c \in ChannelNames, ps \in Programmes(logo)}

PlanInit ==
    /\ NoRun
    /\ SearchIdle
    /\ FetchIdle
    /\ InitialsIdle
    /\ \E logo \in URLs, n \in 0..MaxFiles : schedule \in [1..n -> Files(logo)]
    /\ plan = NoPlan
    /\ UrlIdle

\* Pass 1, from the first JSON file to the task list.
BuildPlan ==
    /\ ~plan.built
    /\ plan' = [built |-> TRUE, tasks |-> Pass1(schedule).tasks,
                seen |-> Pass1(schedule).seen]
    /\ UNCHANGED <<schedule, runnerVars, searchVars, fetchVars, initialsVars,
                   urlVars>>

PlanNext == BuildPlan

PlanSpec == PlanInit /\ [][PlanNext]_vars

\* -------------------------------------------------------------- UrlSpec
\* The two URL builders applied to one destination
\* downloaded-images/<channel folder>/<file>.webp.  Folder names are made
\* of an upper-case letter, a lower-case letter and a hyphen that occur in
\* "downloaded-images/", and a letter that does not.
FolderChars == {"D", "d", "-", "x"}

Folders == StringsUpTo(FolderChars, MaxFolder) \ {<<>>}

FileSlugs == {<<"a">>, <<"x">>, <<"s", "d">>}

UrlInit ==
    /\ NoRun
    /\ SearchIdle
    /\ FetchIdle
    /\ InitialsIdle
    /\ schedule = <<>>
    /\ plan = NoPlan
    /\ dest \in [folder : Folders, file : {WebpName(g) : g \in FileSlugs}]
    /\ urls = NoUrls

ApplyUrls ==
    /\ ~urls.called
    /\ urls' = [called |-> TRUE,
                new |-> build_new_url(
                            JoinPath(JoinPath(IMAGES_DIR, dest.folder), dest.file)),
                parts |-> build_url_from_parts(dest.folder, dest.file)]
    /\ UNCHANGED <<dest, runnerVars, searchVars, fetchVars, initialsVars,
                   planVars>>

UrlNext == ApplyUrls

UrlSpec == UrlInit /\ [][UrlNext]_vars

\* ------------------------------------------------------------ FetchSpec
\* One call of download_image for a non-empty URL, over every sequence of
\* outcomes of its RETRY_ATTEMPTS possible requests.
RequestOutcomes ==
    {Response(b) : b \in WebBodies} \cup {Raises(e) : e \in RequestErrors}

FetchInit ==
    /\ NoRun
    /\ SearchIdle
    /\ attempts \in [1..RETRY_ATTEMPTS -> RequestOutcomes]
    /\ fetch = NotFetched
    /\ InitialsIdle
    /\ PlanIdle
    /\ UrlIdle

ApplyFetch ==
    /\ ~fetch.called
    /\ fetch' = [called |-> TRUE, did |-> download_image(attempts)]
    /\ UNCHANGED <<attempts, runnerVars, searchVars, initialsVars, planVars,
                   urlVars>>

FetchNext == ApplyFetch

FetchSpec == FetchInit /\ [][FetchNext]_vars

\* =============================================================== claims
Outcomes == {"ok", "skipped", "placeholder", "failed"}

\* C1 (FairSpec): every run finishes, and when it has finished every
\* submitted task has exactly one reported outcome, whatever failed.
C1_RunFinishes ==
    /\ <>(mainpc = "done")
    /\ [](mainpc = "done" =>
            \A i \in Tasks : Len(reported[i]) = 1 /\ reported[i][1] \in Outcomes)

\* A finished run in which one task failed and its sibling was materialized.
C1_Witness ==
    /\ mainpc = "done"
    /\ \E i, j \in Tasks : reported[i] = <<"failed">> /\ reported[j] = <<"ok">>

\* C2 as stated (TwoRunSpec): the second run ends with every task skipped
\* and no write to the store.
C2_SecondRunAllSkipped ==
    (run = "second" /\ mainpc = "done") =>
        /\ \A i \in Tasks : reported[i] = <<"skipped">>
        /\ \A p \in Paths : wcount[p] = 0

\* C2 as amended (TwoRunSpec): in the second run a task that the first run
\* did not report as failed never gets past the existence check, returns
\* skipped and is reported skipped, and nothing is written to its
\* destination.
C2_Idempotent ==
    run = "second" =>
        \A i \in Tasks :
            first[i] # <<"failed">> =>
                /\ pc[i] \in {"unsubmitted", "queued", "exists", "returned"}
                /\ pc[i] = "returned" => result[i].status = "skipped"
                /\ i \in collected => reported[i] = <<"skipped">>
                /\ wcount[tasks[i].dest_path] = 0

\* A finished second run that skipped a task the first run had materialized.
C2_Witness ==
    /\ run = "second"
    /\ mainpc = "done"
    /\ \E i \in Tasks : first[i] = <<"ok">> /\ reported[i] = <<"skipped">>

\* download_image was called and returned None, which it does only after
\* RETRY_ATTEMPTS failed requests.
FetchExhausted(i) ==
    /\ fetched[i] > 0
    /\ raw[i].isNone

\* The bytes the Fetcher returned cannot be transcoded under the task's
\* profile (zero bytes are no image either).
TranscoderFails(i) ==
    /\ ~raw[i].isNone
    /\ Transcode(raw[i].body, tasks[i].is_channel).failed

\* C3 (Spec): when process_image returns after its write, the status is
\* placeholder exactly if the URL is empty, the Fetcher exhausted its
\* retries or the Transcoder fails on the fetched bytes, and ok otherwise.
C3_PlaceholderTotality ==
    [][\A i \in Tasks :
          (pc[i] = "write" /\ pc'[i] = "returned") =>
              LET noSource == \/ tasks[i].url = ""
                              \/ FetchExhausted(i)
                              \/ TranscoderFails(i)
              IN  /\ result'[i].status = "placeholder" <=> noSource
                  /\ result'[i].status = "ok" <=> ~noSource]_vars

\* One task returned a placeholder for a non-empty URL, another returned ok.
C3_Witness ==
    \E i, j \in Tasks :
        /\ pc[i] = "returned" /\ result[i].status = "placeholder"
        /\ tasks[i].url # ""
        /\ pc[j] = "returned" /\ result[j].status = "ok"

\* C4 as stated (Spec): a destination path holds no file or a complete,
\* validly encoded artifact.
C4_NoPartialArtifact ==
    \A p \in Paths :
        \/ fs[p].state = "absent"
        \/ fs[p].state = "complete" /\ fs[p].bytes # NoBytes

\* C5 (Spec): a task whose mkdir or write raised holds an exception and is
\* counted as failed and as nothing else; main goes on, and when the run is
\* over every sibling has its own single outcome, the status its own
\* process_image returned, and the artifact it wrote is in place.
C5_FilesystemErrorReported ==
    /\ \A i \in Tasks :
          pc[i] = "raised" =>
              /\ result[i].status = "exception"
              /\ i \in collected => reported[i] = <<"failed">>
    /\ counts.failed = Cardinality({i \in collected : pc[i] = "raised"})
    /\ mainpc \in {"submit", "collect", "done"}
    /\ (mainpc = "done" /\ \E i \in Tasks : pc[i] = "raised") =>
          \A j \in Tasks :
              pc[j] # "raised" =>
                  /\ pc[j] = "returned"
                  /\ reported[j] = <<result[j].status>>
                  /\ fs[tasks[j].dest_path].state = "complete"
                  /\ result[j].status \in {"ok", "placeholder"} =>
                         fs[tasks[j].dest_path].bytes.size = result[j].size

\* A finished run: one task failed and left no file, its sibling was given a
\* placeholder.
C5_Witness ==
    /\ mainpc = "done"
    /\ \E i, j \in Tasks :
          /\ reported[i] = <<"failed">>
          /\ fs[tasks[i].dest_path].state = "absent"
          /\ reported[j] = <<"placeholder">>
          /\ fs[tasks[j].dest_path].state = "complete"

\* C6 (Spec): a Budgeted task that returned ok with bytes from the quality
\* ladder or the scale ladder reports a size within SHOW_MAX_BYTES, and
\* that is the size of the artifact at its destination.
C6_BudgetSatisfied ==
    \A i \in Tasks :
        (/\ pc[i] = "returned"
         /\ ~tasks[i].is_channel
         /\ result[i].status = "ok"
         /\ result[i].via \in {"quality", "scale"}) =>
            /\ result[i].size <= SHOW_MAX_BYTES
            /\ fs[tasks[i].dest_path].state = "complete"
            /\ fs[tasks[i].dest_path].bytes.size = result[i].size

\* Two show tasks returned ok, one from each ladder.
C6_Witness ==
    \E i, j \in Tasks :
        /\ pc[i] = "returned" /\ ~tasks[i].is_channel /\ result[i].via = "quality"
        /\ pc[j] = "returned" /\ ~tasks[j].is_channel /\ result[j].via = "scale"

\* C12 (Spec): a task whose destination existed when the run began never
\* gets past the existence check: it returns skipped without a fetch, a
\* transcode or a placeholder, its destination is never written and holds
\* what it held before the run; and the step that finds the destination
\* present returns skipped and changes neither the store nor the folders.
C12_ExistingUntouched ==
    /\ [](\A i \in Tasks :
            Exists(before, tasks[i].dest_path) =>
                /\ pc[i] \in {"unsubmitted", "queued", "exists", "returned"}
                /\ pc[i] = "returned" => result[i].status = "skipped"
                /\ fetched[i] = 0
                /\ raw[i] = NoneRaw
                /\ webp[i] = NoWebp
                /\ wcount[tasks[i].dest_path] = 0
                /\ fs[tasks[i].dest_path] = before[tasks[i].dest_path])
    /\ [][\A i \in Tasks :
            (pc[i] = "exists" /\ pc'[i] # "exists"
                /\ fs[tasks[i].dest_path].state # "absent") =>
                /\ pc'[i] = "returned"
                /\ result'[i].status = "skipped"
                /\ fs' = fs
                /\ dirs' = dirs
                /\ wcount' = wcount]_vars

\* A finished run: one task found its artifact and left it alone while its
\* sibling in the same folder was materialized.
C12_Witness ==
    /\ mainpc = "done"
    /\ \E i, j \in Tasks :
          /\ before[tasks[i].dest_path] = OldFile
          /\ fs[tasks[i].dest_path] = OldFile
          /\ reported[i] = <<"skipped">>
          /\ before[tasks[j].dest_path] = Absent
          /\ reported[j] = <<"ok">>

\* The state of the per-task state machine that a task is in: Fetching while
\* download_image is to be called or has returned nothing to decode,
\* Decoding once there are bytes to transcode and until the transcoded
\* bytes are written, PlaceholderFallback once the placeholder is chosen.
TaskStateOf(task, p, r, w, res) ==
    CASE p \in {"unsubmitted", "queued", "exists", "mkdir"} -> "Pending"
      [] p = "acquire" -> IF task.url # "" THEN "Fetching" ELSE "Pending"
      [] p = "convert" -> IF Truthy(r) THEN "Decoding"
                          ELSE IF task.url # "" THEN "Fetching" ELSE "Pending"
      [] p = "write" -> IF w.used_placeholder THEN "PlaceholderFallback"
                        ELSE "Decoding"
      [] p = "raised" -> "Failed"
      [] OTHER -> CASE res.status = "skipped" -> "AlreadyPresent"
                    [] res.status = "ok" -> "Materialized"
                    [] OTHER -> "MaterializedAsPlaceholder"

TaskState(i) == TaskStateOf(tasks[i], pc[i], raw[i], webp[i], result[i])

\* The transitions of the state machine as stated.
StatedTransitions ==
    {<<"Pending", "AlreadyPresent">>, <<"Pending", "Fetching">>,
     <<"Fetching", "Decoding">>,
     <<"Decoding", "Materialized">>, <<"Decoding", "PlaceholderFallback">>,
     <<"PlaceholderFallback", "MaterializedAsPlaceholder">>}

\* What the code adds: no fetch for an empty URL, no decoding when the fetch
\* returned nothing, and the failure of mkdir or of the write.
ShortcutTransitions ==
    {<<"Pending", "PlaceholderFallback">>, <<"Fetching", "PlaceholderFallback">>}

FailureTransitions ==
    {<<"Pending", "Failed">>, <<"Decoding", "Failed">>,
     <<"PlaceholderFallback", "Failed">>}

\* C13 as stated (Spec): every step of a task is a transition of the stated
\* state machine.
C13_StatedMachine ==
    [][\A i \in Tasks :
          \/ TaskState(i)' = TaskState(i)
          \/ <<TaskState(i), TaskState(i)'>> \in StatedTransitions]_vars

\* C13 as amended (Spec): every step of a task is a transition of the
\* stated state machine, or goes to PlaceholderFallback from Pending (empty
\* URL) or from Fetching (nothing fetched), or to the terminal state Failed
\* from Pending (mkdir raised) or from Decoding or PlaceholderFallback (the
\* write raised); no terminal state is ever left.
C13_TaskMachine ==
    [][\A i \in Tasks :
          \/ TaskState(i)' = TaskState(i)
          \/ <<TaskState(i), TaskState(i)'>> \in
                StatedTransitions \cup ShortcutTransitions \cup FailureTransitions]_vars

\* One task fetched nothing and ended as a placeholder, another failed, both
\* for a non-empty URL.
C13_Witness ==
    \E i, j \in Tasks :
        /\ tasks[i].url # "" /\ TaskState(i) = "MaterializedAsPlaceholder"
        /\ tasks[j].url # "" /\ TaskState(j) = "Failed"

\* The tasks between their existence check and the end of their write.
CheckAndWrite(p) == {i \in Running : tasks[i].dest_path = p}

\* C14 (Spec): at no moment are two workers between the existence check and
\* the write of one destination path, no destination is written more than
\* once in a run, and without any lock the artifact at the destination of a
\* task that returned after its write is the one that task wrote.
C14_NoWriteContention ==
    /\ \A p \in Paths :
          /\ Cardinality(CheckAndWrite(p)) <= 1
          /\ wcount[p] <= 1
    /\ \A i \in Tasks :
          (pc[i] = "returned" /\ result[i].status # "skipped") =>
              /\ wcount[tasks[i].dest_path] = 1
              /\ fs[tasks[i].dest_path].state = "complete"
              /\ fs[tasks[i].dest_path].bytes.size = result[i].size
              /\ fs[tasks[i].dest_path].bytes.lossless = tasks[i].is_channel

\* Two workers are about to write at the same moment, into one folder.
C14_Witness ==
    \E i, j \in Tasks :
        /\ i # j
        /\ pc[i] = "write" /\ pc[j] = "write"
        /\ tasks[i].dest_path.folder = tasks[j].dest_path.folder
        /\ tasks[i].dest_path # tasks[j].dest_path

\* The placeholder of a task, under its profile.
PlaceholderOf(task) == placeholder_webp(task.initials, ~task.is_channel)

\* C17 (Spec): for a task with an empty URL download_image is never called
\* and raw stays None; what it is about to write is the placeholder; and
\* when its destination was absent and it has returned, its status is
\* placeholder and the placeholder is the file at its destination, written
\* once.
C17_EmptyUrlPlaceholder ==
    \A i \in Tasks :
        tasks[i].url = "" =>
            /\ fetched[i] = 0
            /\ raw[i] = NoneRaw
            /\ pc[i] = "write" =>
                   /\ webp[i].used_placeholder
                   /\ webp[i].bytes = PlaceholderOf(tasks[i])
            /\ (pc[i] = "returned" /\ ~Exists(before, tasks[i].dest_path)) =>
                   /\ result[i].status = "placeholder"
                   /\ result[i].via = "placeholder"
                   /\ fs[tasks[i].dest_path] = File(PlaceholderOf(tasks[i]))
                   /\ wcount[tasks[i].dest_path] = 1

\* A show task and a channel task without URL both ended as placeholders,
\* the one lossy, the other lossless.
C17_Witness ==
    \E i, j \in Tasks :
        /\ tasks[i].url = "" /\ ~tasks[i].is_channel
        /\ pc[i] = "returned" /\ result[i].status = "placeholder"
        /\ ~fs[tasks[i].dest_path].bytes.lossless
        /\ tasks[j].url = "" /\ tasks[j].is_channel
        /\ pc[j] = "returned" /\ result[j].status = "placeholder"
        /\ fs[tasks[j].dest_path].bytes.lossless

\* C19 (PoolSpec): at most workers (at most MAX_WORKERS) tasks are being
\* executed at any moment; a task is taken from the queue once, by a free
\* worker, and stays with it until its result, which is final; and with a
\* second worker in the pool every other task finishes even if the fetch of
\* the first task never returns.
C19_PoolBound ==
    /\ [](Cardinality(Running) <= workers /\ workers <= MAX_WORKERS)
    /\ [][\A i \in Tasks :
            /\ (i \notin Running /\ i \in Running') =>
                   /\ pc[i] = "queued" /\ pc'[i] = "exists"
                   /\ Cardinality(Running) < workers
            /\ pc[i] = "queued" => pc'[i] \in {"queued", "exists"}
            /\ i \in Running => pc'[i] \notin {"unsubmitted", "queued"}
            /\ pc[i] \in {"returned", "raised"} => pc'[i] = pc[i]]_vars
    /\ (workers >= 2) =>
           <>(\A j \in Tasks \ {1} : pc[j] \in {"returned", "raised"})

\* With two workers, the second task has returned and was collected while
\* the first is still in its fetch.
C19_Witness ==
    /\ workers = 2
    /\ Len(tasks) = 2
    /\ pc[1] = "acquire" /\ tasks[1].url # ""
    /\ pc[2] = "returned" /\ result[2].status = "ok"
    /\ 2 \in collected

\* The outcome of a finished task: failed for an exception, else the status
\* process_image returned.
OutcomeOf(i) == IF pc[i] = "raised" THEN "failed" ELSE result[i].status

\* C21 (Spec): each counter is the number of collected tasks with that
\* outcome, every collected task is counted once, under the outcome of its
\* own result, and no other; when the run is over every task is collected,
\* so the four counters add up to the number of submitted tasks.
C21_CountersPartition ==
    /\ \A o \in Outcomes :
          counts[o] = Cardinality({i \in collected : OutcomeOf(i) = o})
    /\ counts.ok + counts.skipped + counts.placeholder + counts.failed
          = Cardinality(collected)
    /\ \A i \in Tasks :
          IF i \in collected THEN reported[i] = <<OutcomeOf(i)>> /\ OutcomeOf(i) \in Outcomes
          ELSE reported[i] = <<>>
    /\ mainpc = "done" =>
          /\ collected = Tasks
          /\ counts.ok + counts.skipped + counts.placeholder + counts.failed
                = Len(tasks)

\* A finished run of two tasks: one placeholder and one failure were
\* counted, nothing else.
C21_Witness ==
    /\ mainpc = "done"
    /\ Len(tasks) = 2
    /\ counts = [ok |-> 0, skipped |-> 0, placeholder |-> 1, failed |-> 1]

\* C22 as stated (MainSpec): once pass 3 has patched the references, each
\* of them points at a destination where a file exists.
C22_ReferencesResolve ==
    refs.patched => \A p \in refs.paths : Exists(fs, p)

\* ------------------------------------------------- claims on SearchSpec
\* to_webp_show was applied to a decodable body.
ShowApplied == img.decodable /\ out # Pending /\ out.branch # "identity"

\* The levels 85, 80, ..., 10 at which the pre-shrunk raster of img encodes
\* within the budget.
FittingLevels ==
    {q \in 10..85 : q % 5 = 0 /\ EncodedSize(PreShrunk(img), q, 100) <= SHOW_MAX_BYTES}

MaxOf(S) == CHOOSE m \in S : \A x \in S : x <= m

\* C7 as stated (SearchSpec): when no ladder encode fits, the search returns
\* the encode of the raster scaled to 0.25 at quality 5.
C7_BestEffortSmallestScale ==
    (ShowApplied /\ out.branch = "best_effort") =>
        /\ out.bytes.quality = 5
        /\ out.bytes.scale = 25
        /\ out.bytes.w = Max2(1, ScaleDim(PreShrunk(img).w, 25))
        /\ out.bytes.h = Max2(1, ScaleDim(PreShrunk(img).h, 25))

\* C8 (SearchSpec): the quality ladder is 85, 80, ..., 10; when some level
\* fits, the search returns the encode of the pre-shrunk, unscaled raster at
\* the highest fitting level, having tried exactly the levels from 85 down
\* to it and nothing else.
C8_QualityLadder ==
    /\ Len(QualityLadder) = 16
    /\ \A k \in 1..16 : QualityLadder[k] = 85 - 5 * (k - 1)
    /\ (ShowApplied /\ FittingLevels # {}) =>
          LET m == MaxOf(FittingLevels)
              n == (85 - m) \div 5 + 1
          IN  /\ out.branch = "quality"
              /\ out.bytes.quality = m
              /\ out.bytes.scale = 100
              /\ out.bytes.w = PreShrunk(img).w
              /\ out.bytes.h = PreShrunk(img).h
              /\ out.bytes.size <= SHOW_MAX_BYTES
              /\ Len(out.attempts) = n
              /\ out.attempts[n] = out.bytes
              /\ \A k \in 1..n :
                    /\ out.attempts[k].quality = 85 - 5 * (k - 1)
                    /\ out.attempts[k].scale = 100

\* A pre-shrunk raster that fits at 40 and at 10: 40 was returned.
C8_Witness ==
    /\ ShowApplied
    /\ img.w > 400
    /\ {<<40, 100>>, <<10, 100>>} \subseteq img.fit
    /\ out.bytes.quality = 40

\* C9 (SearchSpec): a raster that fits at some quality level is never
\* resized by the search, and a resized encode is attempted only after all
\* 16 quality levels were tried on the unscaled raster and none fitted.
C9_QualityBeforeScale ==
    ShowApplied =>
        LET scaled == {k \in 1..Len(out.attempts) : out.attempts[k].scale # 100}
        IN  /\ FittingLevels # {} => scaled = {}
            /\ scaled # {} =>
                  /\ Len(out.attempts) > 16
                  /\ \A k \in scaled : k > 16
                  /\ \A k \in 1..16 :
                        /\ out.attempts[k].scale = 100
                        /\ out.attempts[k].quality = 85 - 5 * (k - 1)
                        /\ out.attempts[k].size > SHOW_MAX_BYTES

\* A raster that fits only at quality 10, also at half size: returned from
\* the quality ladder after 16 unscaled encodes.
C9_Witness ==
    /\ ShowApplied
    /\ img.fit = {<<10, 100>>, <<10, 50>>}
    /\ out.branch = "quality"
    /\ Len(out.attempts) = 16

\* C10 (SearchSpec): for every decodable raster the search returns encoded
\* bytes, the last of at most 16 quality encodes, then at most 4 scale
\* encodes, then at most 1 final encode, whether or not the budget is met.
C10_SearchReturns ==
    ShowApplied =>
        LET n == Len(out.attempts)
            unscaled == {k \in 1..n : out.attempts[k].scale = 100
                                        /\ out.attempts[k].quality >= 10}
            scaled == {k \in 1..n : out.attempts[k].scale # 100}
            final == {k \in 1..n : out.attempts[k].quality < 10}
        IN  /\ ~out.failed
            /\ out.branch \in {"quality", "scale", "best_effort"}
            /\ n \in 1..21
            /\ out.bytes = out.attempts[n]
            /\ out.bytes.size > 0 /\ out.bytes.w >= 1 /\ out.bytes.h >= 1
            /\ Cardinality(unscaled) <= 16
            /\ Cardinality(scaled) <= 4
            /\ Cardinality(final) <= 1
            /\ \A a \in unscaled, b \in scaled, c \in final : a < b /\ b < c

\* Nothing fitted: 21 encodes, and bytes over the budget were returned.
C10_Witness ==
    /\ ShowApplied
    /\ Len(out.attempts) = 21
    /\ out.bytes.size > SHOW_MAX_BYTES

\* -------------------------------------------------- claims on FetchSpec
\* The requests of a call that makes n of them: a backoff between each two.
RequestsWithBackoff(n) == [k \in 1..(2 * n - 1) |-> IF k % 2 = 1 THEN "get" ELSE "sleep"]

\* The attempts that would succeed.
Successful == {a \in 1..RETRY_ATTEMPTS : attempts[a].ok}

\* C11 (FetchSpec): download_image makes between 1 and RETRY_ATTEMPTS
\* requests; it returns the body of the first successful one and makes no
\* further request; it sleeps exactly once after each failed request that
\* is not the last; when every request fails it returns None; no exception
\* leaves it.
C11_BoundedRetry ==
    fetch.called =>
        LET d == fetch.did
            n == IF Successful = {} THEN RETRY_ATTEMPTS
                 ELSE CHOOSE a \in Successful : \A b \in Successful : a <= b
        IN  /\ ~d.raised
            /\ n \in 1..2
            /\ d.events = RequestsWithBackoff(n)
            /\ \A a \in 1..(n - 1) : ~attempts[a].ok
            /\ IF Successful = {} THEN d.value = NoneRaw
               ELSE d.value = SomeRaw(attempts[n].body)

\* The first request timed out, the second one was answered: one backoff,
\* and the second body was returned.
C11_Witness ==
    /\ fetch.called
    /\ attempts = <<Raises("TimeoutError"), Response(LargeImage)>>
    /\ fetch.did.events = <<"get", "sleep", "get">>
    /\ fetch.did.value = SomeRaw(LargeImage)

\* The Transcoder was applied to a decodable body under the Identity profile.
ChannelApplied == img.decodable /\ out # Pending /\ out.branch = "identity"

\* side is the other side long scaled by cap / longSrc, within a pixel.
WithinAPixel(side, src, longSrc, cap) ==
    /\ side >= 1
    /\ (side * longSrc - cap * src) < longSrc
    /\ (cap * src - side * longSrc) < longSrc

\* C20 (SearchSpec): under the Budgeted profile the first encode is of the
\* source raster itself when both sides are at most 400, and else of the
\* raster with its longer side at 400 and its other side in proportion, to
\* the pixel; every unscaled encode has these dimensions, no encode is
\* larger, and the returned artifact has no side above 400.  Under the
\* Identity profile the artifact is lossless and has the source's
\* dimensions.
C20_PreShrink ==
    /\ ShowApplied =>
          LET e == out.attempts[1]
          IN  /\ (img.w <= 400 /\ img.h <= 400) => (e.w = img.w /\ e.h = img.h)
              /\ (img.w > 400 /\ img.w >= img.h) =>
                     (e.w = 400 /\ e.h <= 400 /\ WithinAPixel(e.h, img.h, img.w, 400))
              /\ (img.h > 400 /\ img.h > img.w) =>
                     (e.h = 400 /\ e.w <= 400 /\ WithinAPixel(e.w, img.w, img.h, 400))
              /\ \A k \in 1..Len(out.attempts) :
                    /\ out.attempts[k].w <= e.w /\ out.attempts[k].h <= e.h
                    /\ out.attempts[k].scale = 100 =>
                           (out.attempts[k].w = e.w /\ out.attempts[k].h = e.h)
              /\ out.bytes.w <= 400 /\ out.bytes.h <= 400
    /\ ChannelApplied =>
          /\ out.bytes.lossless
          /\ out.bytes.w = img.w /\ out.bytes.h = img.h
          /\ Len(out.attempts) = 1

\* A 1000 x 401 raster was encoded at 400 x 160 and not resized again.
C20_Witness ==
    /\ ShowApplied
    /\ img.w = 1000 /\ img.h = 401
    /\ out.bytes.scale = 100
    /\ out.bytes.w = 400 /\ out.bytes.h = 160

\* ----------------------------------------------- claims on InitialsSpec
\* The words of the label: its maximal runs of non-space characters.
LabelWords == Split(label)

\* The first n characters of str, or all of it when it is shorter.
Prefix(str, n) == [k \in 1..(IF Len(str) < n THEN Len(str) ELSE n) |-> str[k]]

\* C16 as stated (InitialsSpec): get_initials returns the first 4
\* characters of a single-word label upper-cased, and otherwise the first
\* characters of the words, upper-cased and cut to 4; its result is never
\* longer than 4 characters.
C16_Initials ==
    initials.called =>
        /\ Len(LabelWords) = 1 =>
               initials.value = UpperStr(Prefix(LabelWords[1], 4))
        /\ Len(LabelWords) # 1 =>
               initials.value =
                   Prefix(UpperStr([k \in 1..Len(LabelWords) |-> LabelWords[k][1]]), 4)
        /\ Len(initials.value) <= 4

\* --------------------------------------------------- claims on PlanSpec
\* C15 as stated (PlanSpec): the tasks pass 1 builds have pairwise distinct
\* destination paths.
C15_DistinctDestinations ==
    plan.built =>
        \A i, j \in 1..Len(plan.tasks) :
            i # j => plan.tasks[i].dest_path # plan.tasks[j].dest_path

\* IMAGES_DIR / channel_folder / f"{slug}.webp": where the artifact of a
\* name of a channel is, and where its rewritten reference points.
ArtifactPath(channel_folder, name) ==
    JoinPath(JoinPath(IMAGES_DIR, channel_folder), WebpName(slugify(name)))

\* The tasks of the plan that produce the artifact at a path.
Producers(path) ==
    {plan.tasks[i] : i \in {k \in 1..Len(plan.tasks) : plan.tasks[k].dest_path = path}}

\* C18 as stated (PlanSpec): the artifact of every channel logo is produced
\* by a task of the Identity profile, and the artifact that the show_logo
\* of every programme with a show_name is rewritten to point at is produced
\* by a task of the Budgeted profile.
C18_ProfilePerClass ==
    plan.built =>
        \A f \in 1..Len(schedule) :
            LET file == schedule[f]
            IN  /\ Producers(ArtifactPath(file.channel_name, file.channel_name)) # {}
                /\ \A t \in Producers(ArtifactPath(file.channel_name, file.channel_name)) :
                      t.is_channel
                /\ \A k \in 1..Len(file.programmes) :
                      file.programmes[k].show_name # <<>> =>
                          LET path == ArtifactPath(file.channel_name,
                                                   file.programmes[k].show_name)
                          IN  /\ Producers(path) # {}
                              /\ \A t \in Producers(path) : ~t.is_channel

\* ---------------------------------------------------- claims on UrlSpec
\* C23 as stated (UrlSpec): for the destination
\* downloaded-images/<folder>/<file>.webp, build_new_url returns
\* BASE_URL + "/" + <folder> + "/" + <file>.webp, which is what
\* build_url_from_parts(<folder>, <file>.webp) returns.
C23_SameUrl ==
    urls.called =>
        /\ urls.new = BASE_URL \o <<"/">> \o dest.folder \o <<"/">> \o dest.file
        /\ urls.new = urls.parts

====
